---- MODULE Spec2Model ----
(***************************************************************************)
(* mapperfs: a FUSE filesystem that exposes a list of real files under a   *)
(* synthetic directory tree (src/mapperfs.py, src/generic.py).             *)
(*                                                                         *)
(* Python strings are modelled as sequences of one-character strings, so   *)
(* that os.path.split, os.path.join, os.path.splitext, str.rstrip and      *)
(* os.path.commonprefix are computed character by character.               *)
(***************************************************************************)
EXTENDS Integers, Sequences, FiniteSets, TLC

(***************************************************************************)
(* Strings and the os.path functions the program calls                     *)
(***************************************************************************)

SEP == "/"

EMPTY == <<>>

\* str.rstrip('/'): drop every trailing separator
RECURSIVE RStrip(_)
RStrip(s) ==
    IF s # EMPTY /\ s[Len(s)] = SEP THEN RStrip(SubSeq(s, 1, Len(s) - 1)) ELSE s

\* str.rfind(c) + 1: the 1-based position of the last c in s, 0 when there is none
RECURSIVE RFind(_, _)
RFind(s, c) ==
    IF s = EMPTY THEN 0
    ELSE IF s[Len(s)] = c THEN Len(s)
    ELSE RFind(SubSeq(s, 1, Len(s) - 1), c)

\* posixpath.split: <<head, tail>>; head loses its trailing separators unless
\* it consists of separators only
Split(p) ==
    LET i    == RFind(p, SEP)
        head == SubSeq(p, 1, i)
        tail == SubSeq(p, i + 1, Len(p))
    IN  <<IF RStrip(head) # EMPTY THEN RStrip(head) ELSE head, tail>>

\* posixpath.basename
Basename(p) == SubSeq(p, RFind(p, SEP) + 1, Len(p))

\* posixpath.join(a, b)
Join(a, b) ==
    IF b # EMPTY /\ b[1] = SEP THEN b
    ELSE IF a = EMPTY \/ a[Len(a)] = SEP THEN a \o b
    ELSE a \o <<SEP>> \o b

\* posixpath.splitext: <<root, ext>>; the extension starts at the last dot of
\* the last component, unless that component has only dots before it
SplitExt(p) ==
    LET sepIndex == RFind(p, SEP)
        dotIndex == RFind(p, ".")
    IN  IF dotIndex > sepIndex
           /\ \E k \in (sepIndex + 1)..(dotIndex - 1) : p[k] # "."
        THEN <<SubSeq(p, 1, dotIndex - 1), SubSeq(p, dotIndex, Len(p))>>
        ELSE <<p, EMPTY>>

\* s is a prefix of t
IsPrefix(s, t) == Len(s) <= Len(t) /\ SubSeq(t, 1, Len(s)) = s

\* os.path.commonprefix: the longest string that is a prefix of every element
CommonPrefix(m) ==
    IF m = <<>> THEN EMPTY
    ELSE LET n == CHOOSE k \in 0..Len(m[1]) :
                      /\ \A j \in 1..Len(m) : IsPrefix(SubSeq(m[1], 1, k), m[j])
                      /\ \A k2 \in (k + 1)..Len(m[1]) :
                            \E j \in 1..Len(m) : ~IsPrefix(SubSeq(m[1], 1, k2), m[j])
         IN  SubSeq(m[1], 1, n)

\* str(n) for a natural number n
Digit(d) == CASE d = 0 -> "0" [] d = 1 -> "1" [] d = 2 -> "2" [] d = 3 -> "3"
              [] d = 4 -> "4" [] d = 5 -> "5" [] d = 6 -> "6" [] d = 7 -> "7"
              [] d = 8 -> "8" [] d = 9 -> "9"

RECURSIVE Str(_)
Str(n) == IF n < 10 THEN <<Digit(n)>> ELSE Str(n \div 10) \o <<Digit(n % 10)>>


(***************************************************************************)
(* Bounds and input domains                                                *)
(***************************************************************************)

\* components of the longest path named in an input file
MaxDepth == 3

\* lines of the input file
MaxFiles == 2

\* file names used as path components
Names == {"a", "b"}

\* the absolute path made of the components in comps ("/" for none)
RECURSIVE PathOf(_)
PathOf(comps) ==
    IF comps = <<>> THEN <<SEP>>
    ELSE IF Len(comps) = 1 THEN <<SEP, comps[1]>>
    ELSE PathOf(SubSeq(comps, 1, Len(comps) - 1)) \o <<SEP, comps[Len(comps)]>>

\* the normalised absolute paths of at most d components named in names
AbsPathsOver(names, d) == UNION {{PathOf(c) : c \in [1..k -> names]} : k \in 0..d}

\* the normalised absolute paths of at most d components: what the kernel
\* hands to a FUSE operation
AbsPaths(d) == AbsPathsOver(Names, d)

\* what a line of the input file may be: an absolute path, the same with a
\* trailing separator, or a blank line
Lines == AbsPaths(MaxDepth) \cup {p \o <<SEP>> : p \in AbsPaths(MaxDepth) \ {<<SEP>>}}
             \cup {EMPTY}

(***************************************************************************)
(* The mappers (src/mapperfs.py:229-296): each turns the list of files     *)
(* into a sequence of <<real, mounted>> pairs                              *)
(***************************************************************************)

\* zip(a, b)
Zip(a, b) == [i \in 1..(IF Len(a) < Len(b) THEN Len(a) ELSE Len(b)) |-> <<a[i], b[i]>>]

\* the set of elements of a sequence
Range(s) == {s[i] : i \in 1..Len(s)}

TrivialMapper_pairs(files) == [i \in 1..Len(files) |-> <<files[i], files[i]>>]

\* FlatMapper.fmt.format(base=base, ext=ext, n=n)
Fmt(base, n, ext) == base \o <<"-">> \o Str(n) \o ext

\* the first candidate, whether it is reserved or not
NewNameFirst(filename, reserved) ==
    Fmt(SplitExt(filename)[1], 1, SplitExt(filename)[2])

\* FlatMapper._new_name: the first n = 1, 2, ... whose name is not reserved
NewName(filename, reserved) ==
    LET base == SplitExt(filename)[1]
        ext  == SplitExt(filename)[2]
        n    == CHOOSE k \in 1..(Cardinality(reserved) + 1) :
                    /\ Fmt(base, k, ext) \notin reserved
                    /\ \A j \in 1..(k - 1) : Fmt(base, j, ext) \in reserved
    IN  Fmt(base, n, ext)

\* one iteration of the loop of FlatMapper._uncollide on files[i]: the name
\* it yields
UncollideYield(f, reserved, yielded) ==
    IF f \in yielded THEN NewName(f, reserved) ELSE f

\* FlatMapper._uncollide from position i on, with the generator's sets
RECURSIVE UncollideFrom(_, _, _, _)
UncollideFrom(files, i, reserved, yielded) ==
    IF i > Len(files) THEN <<>>
    ELSE LET f == UncollideYield(files[i], reserved, yielded)
         IN  <<f>> \o UncollideFrom(files, i + 1, reserved \cup {f}, yielded \cup {f})

\* reserved starts empty instead of holding every input name
ReservedEmpty(files) == {}

\* reserved = set(files)
ReservedAtStart(files) == Range(files)

Uncollide(files) == UncollideFrom(files, 1, ReservedAtStart(files), {})

FlatWithCollisions(files) ==
    [i \in 1..Len(files) |-> <<SEP>> \o Basename(RStrip(files[i]))]

FlatMapper_pairs(files) == Zip(files, Uncollide(FlatWithCollisions(files)))

\* the common prefix as it is, not cut back to its last separator
LongestCommonString(file_list) == CommonPrefix(file_list)

\* CommonMapper._longest_common_path
LongestCommonPath(file_list) ==
    LET prefix == CommonPrefix(file_list)
        i      == RFind(prefix, SEP)
    IN  IF i = 0 THEN EMPTY ELSE SubSeq(prefix, 1, i - 1)

CommonMapper_pairs(files) ==
    LET prefix_len == Len(LongestCommonPath(files))
    IN  Zip(files, [i \in 1..Len(files) |-> SubSeq(files[i], prefix_len + 1, Len(files[i]))])

Mappers == {"copy", "flat", "common"}

\* main(): pair_source = lambda: mapper.pairs(read_files(args.inputfile))
PairSource(m, fs) ==
    CASE m = "copy"   -> TrivialMapper_pairs(fs)
      [] m = "flat"   -> FlatMapper_pairs(fs)
      [] m = "common" -> CommonMapper_pairs(fs)

(***************************************************************************)
(* MapFuse (src/mapperfs.py:63-220)                                        *)
(***************************************************************************)

EmptyMap == [k \in {} |-> {}]

\* the dict comprehension of read_list: a later pair replaces an earlier one
\* with the same mounted path
RECURSIVE BuildEntries(_)
BuildEntries(pairs) ==
    IF pairs = <<>> THEN EmptyMap
    ELSE LET rest    == BuildEntries(SubSeq(pairs, 1, Len(pairs) - 1))
             last    == pairs[Len(pairs)]
             mounted == RStrip(last[2])
             real    == RStrip(last[1])
         IN  [k \in DOMAIN rest \cup {mounted} |-> IF k = mounted THEN real ELSE rest[k]]

\* dirs[d].add(base) on a defaultdict(Directory)
DirsAdd(ds, d, base) ==
    [k \in DOMAIN ds \cup {d} |->
        IF k = d THEN (IF d \in DOMAIN ds THEN ds[d] ELSE {}) \cup {base} ELSE ds[k]]

\* the loop condition without its test "d in entries"
SynthContinueNoEntryTest(es, ds, d, base) ==
    d # EMPTY /\ base # EMPTY /\ ~(d \in DOMAIN ds /\ base \in ds[d])

\* the condition of the while loop of _synthesize_dirs
SynthContinue(es, ds, d, base) ==
    d # EMPTY /\ base # EMPTY
        /\ ~(d \in DOMAIN es \/ (d \in DOMAIN ds /\ base \in ds[d]))

\* the loop as an "if": only the parent of the entry is recorded
SynthWalkOnce(es, ds, d, base) ==
    IF SynthContinue(es, ds, d, base) THEN DirsAdd(ds, d, base) ELSE ds

\* the while loop of _synthesize_dirs, started at (d, base)
RECURSIVE SynthWalk(_, _, _, _)
SynthWalk(es, ds, d, base) ==
    IF SynthContinue(es, ds, d, base)
    THEN SynthWalk(es, DirsAdd(ds, d, base), Split(d)[1], Split(d)[2])
    ELSE ds

\* the body of the for loop of _synthesize_dirs for one entry e
SynthEntry(es, ds, e) == SynthWalk(es, ds, Split(e)[1], Split(e)[2])

\* _synthesize_dirs, visiting the keys of entries in the given order
RECURSIVE SynthFrom(_, _, _, _)
SynthFrom(es, ds, order, i) ==
    IF i > Len(order) THEN ds
    ELSE SynthFrom(es, SynthEntry(es, ds, order[i]), order, i + 1)

SynthesizeDirs(es, order) == SynthFrom(es, EmptyMap, order, 1)

\* the orders in which a dict with these keys may be iterated
Orders(keys) ==
    {o \in [1..Cardinality(keys) -> keys] : \A k \in keys : \E i \in DOMAIN o : o[i] = k}

\* what _find_referent returns or raises
Real(p)      == [kind |-> "real", val |-> p]
Directory(c) == [kind |-> "Directory", val |-> c]
Raise(e)     == [kind |-> e, val |-> EMPTY]

\* os.path.isdir(p): never true of the empty path; otherwise the answer of
\* the real filesystem.  isdir says whether the real paths the entries name
\* are directories at the time of the request.
OsPathIsdir(p, isdir) == p # EMPTY /\ isdir

\* the condition of the while loop of _find_referent
WalkContinue(es, ds, left, base) ==
    base # EMPTY /\ ~(left \in DOMAIN es \/ left \in DOMAIN ds)

\* the while loop of _find_referent: <<left, right>> when it ends
RECURSIVE FindWalk(_, _, _, _, _)
FindWalk(es, ds, left, base, right) ==
    IF WalkContinue(es, ds, left, base)
    THEN FindWalk(es, ds, Split(left)[1], Split(left)[2], Join(Split(left)[2], right))
    ELSE <<left, right>>

\* _find_referent(path) on the index (es, ds)
FindReferent(es, ds, path, isdir) ==
    IF path \in DOMAIN es THEN Real(es[path])
    ELSE IF path \in DOMAIN ds THEN Directory(ds[path])
    ELSE LET w     == FindWalk(es, ds, Split(path)[1], Split(path)[2], Split(path)[2])
             left  == w[1]
             right == w[2]
         IN  IF left # EMPTY /\ left \in DOMAIN es /\ OsPathIsdir(es[left], isdir)
             THEN Real(Join(es[left], right))
             ELSE Raise("ENOENT")


\* Directory.num_subdirs: the elements that are Directory instances.  The
\* elements of a Directory are the basenames added by _synthesize_dirs
\* (dirs[d].add(base)), which are str objects, never Directory objects.
IsInstanceDirectory(e) == FALSE

NumSubdirs(node) == Cardinality({e \in node : IsInstanceDirectory(e)})

\* the operations bound to MapFuse.noaccess
MutationOps == {"create", "link", "mkdir", "mknod", "rename", "rmdir", "symlink", "unlink"}

\* MapFuse.noaccess
Noaccess == Raise("EACCES")

\* MapFuse.getattr(path): for a Directory the synthesized record, otherwise
\* the os.lstat of the real path
Getattr(target, ct) ==
    IF target.kind # "Directory"
    THEN [kind |-> "lstat", val |-> target.val]
    ELSE [kind |-> "attr",
          val  |-> [st_atime |-> ct, st_ctime |-> ct, st_mtime |-> ct,
                    st_mode  |-> "S_IFDIR|0555",
                    st_nlink |-> 2 + NumSubdirs(target.val),
                    st_size  |-> Cardinality(target.val)]]

\* MapFuse.__call__(op, path): resolve the path, then dispatch on the target;
\* an ENOENT raised by _find_referent ends the call before the dispatch
Call(es, ds, ct, op, path, isdir) ==
    LET real_path == FindReferent(es, ds, path, isdir)
    IN  IF real_path.kind = "ENOENT" THEN real_path
        ELSE IF op \in MutationOps THEN Noaccess
        ELSE Getattr(real_path, ct)

(***************************************************************************)
(* State                                                                   *)
(***************************************************************************)

VARIABLES
    mapper,      \* main(): the mapper chosen with --mapper
    files,       \* the lines the input file holds now
    entries,     \* MapFuse.entries: mounted path -> real path
    dirs,        \* MapFuse.dirs: synthesized directory -> set of child names
    ctime,       \* MapFuse.ctime
    now,         \* the clock read by time.time()
    reply,       \* the last request served and what it returned
    rl,          \* the frame of a read_list call that runs step by step
    uc,          \* the frame of a FlatMapper._uncollide generator
    cm,          \* the frame of a CommonMapper.pairs call
    update_lock, \* MapFuse.update_lock: the thread that holds it, or "free"
    worker,      \* the frame of each FUSE thread serving a request
    gen          \* which read_list call stored entries, dirs and ctime

fsVars == <<mapper, files, entries, dirs, ctime, now>>

callVars == <<uc, cm>>

thrVars == <<update_lock, worker, gen>>

vars == <<mapper, files, entries, dirs, ctime, now, reply, rl, uc, cm, update_lock, worker, gen>>

NoReply == [op |-> "none", path |-> EMPTY, isdir |-> FALSE, result |-> Raise("none")]

\* no read_list call is running
NoFrame == [pc |-> "idle", entries |-> EmptyMap, order |-> <<>>, i |-> 0, dirs |-> EmptyMap]

\* no generator, no CommonMapper.pairs call
NoCalls ==
    /\ uc = [files |-> <<>>, i |-> 0, reserved |-> {}, yielded |-> {}, out |-> <<>>]
    /\ cm = [pc |-> "idle", files |-> <<>>, pairs |-> <<>>]

\* holders of update_lock
Free == <<"free", 0>>

Watcher == <<"watcher", 0>>

Thread(w) == <<"worker", w>>

\* a single thread: the lock is free and no other thread exists
NoThreads ==
    /\ update_lock = Free
    /\ worker = <<>>
    /\ gen = [calls |-> 0, entries |-> 0, dirs |-> 0, ctime |-> 0]

(***************************************************************************)
(* SpecSeq: one thread.  The input file grows by a line, the watcher       *)
(* rereads it (read_list), and requests are served one at a time.          *)
(***************************************************************************)

\* MapFuse.read_list, run to completion
ReadList(fs) ==
    \E order \in Orders(DOMAIN BuildEntries(PairSource(mapper, fs))) :
        /\ entries' = BuildEntries(PairSource(mapper, fs))
        /\ dirs' = SynthesizeDirs(entries', order)
        /\ now' = now + 1
        /\ ctime' = now'

\* MapFuse.__init__ on an empty input file
InitSeq ==
    /\ mapper \in Mappers
    /\ files = <<>>
    /\ entries = EmptyMap
    /\ dirs = EmptyMap
    /\ now = 0
    /\ ctime = 0
    /\ reply = NoReply
    /\ rl = NoFrame
    /\ NoCalls
    /\ NoThreads

\* WatcherThread.run: the input file has a new line; read_list
SeqReload ==
    /\ reply = NoReply
    /\ Len(files) < MaxFiles
    /\ \E line \in Lines : files' = Append(files, line)
    /\ ReadList(files')
    /\ UNCHANGED <<mapper, reply, rl, callVars, thrVars>>

\* a call of _find_referent(path)
SeqResolve ==
    /\ reply = NoReply
    /\ \E path \in AbsPaths(MaxDepth), isdir \in BOOLEAN :
          reply' = [op |-> "_find_referent", path |-> path, isdir |-> isdir,
                    result |-> FindReferent(entries, dirs, path, isdir)]
    /\ UNCHANGED <<fsVars, rl, callVars, thrVars>>

\* a FUSE request op(path): MapFuse.__call__
SeqCall ==
    /\ reply = NoReply
    /\ \E op \in MutationOps \cup {"getattr"}, path \in AbsPaths(MaxDepth), isdir \in BOOLEAN :
          reply' = [op |-> op, path |-> path, isdir |-> isdir,
                    result |-> Call(entries, dirs, ctime, op, path, isdir)]
    /\ UNCHANGED <<fsVars, rl, callVars, thrVars>>

\* the reply goes back to the kernel; the thread takes the next request
SeqReturn ==
    /\ reply # NoReply
    /\ reply' = NoReply
    /\ UNCHANGED <<fsVars, rl, callVars, thrVars>>

NextSeq == SeqReload \/ SeqResolve \/ SeqCall \/ SeqReturn

SpecSeq == InitSeq /\ [][NextSeq]_vars

(***************************************************************************)
(* SpecBuild: one read_list call, the for loop of _synthesize_dirs one     *)
(* entry at a time, then requests resolved against the index it built.     *)
(***************************************************************************)

\* mounted paths per index
MaxEntries == 2

\* the keys read_list can give to entries: lines without trailing separators
Keys == {RStrip(l) : l \in Lines}

\* read_list has built entries (lines 74-75) from pairs that mount each path
\* of a set of keys on itself, and enters _synthesize_dirs; the dict is
\* iterated in some order
InitBuild ==
    /\ mapper = "copy"
    /\ files = <<>>
    /\ entries = EmptyMap
    /\ dirs = EmptyMap
    /\ now = 0
    /\ ctime = 0
    /\ reply = NoReply
    /\ NoCalls
    /\ NoThreads
    /\ \E n \in 0..MaxEntries : \E order \in [1..n -> Keys] :
          /\ \A i \in 1..n, j \in 1..n : i # j => order[i] # order[j]
          /\ rl = [pc |-> "synth", entries |-> [v \in Range(order) |-> v], order |-> order,
                   i |-> 1, dirs |-> EmptyMap]

\* one iteration of "for e in entries" of _synthesize_dirs
BuildStep ==
    /\ rl.pc = "synth"
    /\ rl.i <= Len(rl.order)
    /\ rl' = [rl EXCEPT !.dirs = SynthEntry(rl.entries, rl.dirs, rl.order[rl.i]),
                        !.i = rl.i + 1]
    /\ UNCHANGED <<fsVars, reply, callVars, thrVars>>

\* _synthesize_dirs returns; read_list stores the index and the time
BuildSwap ==
    /\ rl.pc = "synth"
    /\ rl.i > Len(rl.order)
    /\ entries' = rl.entries
    /\ dirs' = rl.dirs
    /\ now' = now + 1
    /\ ctime' = now'
    /\ rl' = NoFrame
    /\ UNCHANGED <<mapper, files, reply, callVars, thrVars>>

\* a call of _find_referent(path) on the index just built
BuildResolve == rl.pc = "idle" /\ SeqResolve

BuildReturn == rl.pc = "idle" /\ SeqReturn

NextBuild == BuildStep \/ BuildSwap \/ BuildResolve \/ BuildReturn

SpecBuild == InitBuild /\ [][NextBuild]_vars

(***************************************************************************)
(* SpecUncollide: one FlatMapper._uncollide generator, one name per step   *)
(***************************************************************************)

\* names per input sequence
MaxNames == 3

\* flattened names that can collide with each other's replacements
FlatNames ==
    {<<SEP>> \o stem \o ext :
        stem \in {<<"a">>, <<"a", "-", "1">>, <<"a", "-", "2">>, <<"a", "-", "1", "-", "1">>, <<"b">>},
        ext \in {EMPTY, <<".", "t">>}}

InitUncollide ==
    /\ mapper = "flat"
    /\ files = <<>>
    /\ entries = EmptyMap
    /\ dirs = EmptyMap
    /\ now = 0
    /\ ctime = 0
    /\ reply = NoReply
    /\ rl = NoFrame
    /\ NoThreads
    /\ cm = [pc |-> "idle", files |-> <<>>, pairs |-> <<>>]
    /\ \E n \in 0..MaxNames : \E fs \in [1..n -> FlatNames] :
          uc = [files |-> fs, i |-> 1, reserved |-> ReservedAtStart(fs), yielded |-> {},
                out |-> <<>>]

\* one iteration of "for f in files": the generator yields a name
UncollideNext ==
    /\ uc.i >= 1 /\ uc.i <= Len(uc.files)
    /\ LET f == UncollideYield(uc.files[uc.i], uc.reserved, uc.yielded)
       IN  uc' = [uc EXCEPT !.out = Append(uc.out, f),
                            !.yielded = uc.yielded \cup {f},
                            !.reserved = uc.reserved \cup {f},
                            !.i = uc.i + 1]
    /\ UNCHANGED <<fsVars, reply, rl, cm, thrVars>>

NextUncollide == UncollideNext

SpecUncollide == InitUncollide /\ [][NextUncollide]_vars

(***************************************************************************)
(* SpecCommon: one CommonMapper.pairs call on a list of absolute paths     *)
(***************************************************************************)

\* characters of the longest real path
MaxLen == 4

\* absolute paths as any string of these characters that starts with "/"
PathChars == {SEP, "a", "b"}

AbsStrings == UNION {{<<SEP>> \o t : t \in [1..k -> PathChars]} : k \in 0..(MaxLen - 1)}

InitCommon ==
    /\ mapper = "common"
    /\ files = <<>>
    /\ entries = EmptyMap
    /\ dirs = EmptyMap
    /\ now = 0
    /\ ctime = 0
    /\ reply = NoReply
    /\ rl = NoFrame
    /\ NoThreads
    /\ uc = [files |-> <<>>, i |-> 0, reserved |-> {}, yielded |-> {}, out |-> <<>>]
    /\ \E n \in 1..MaxFiles : \E fs \in [1..n -> AbsStrings] :
          cm = [pc |-> "call", files |-> fs, pairs |-> <<>>]

\* CommonMapper.pairs(files)
CommonPairs ==
    /\ cm.pc = "call"
    /\ cm' = [cm EXCEPT !.pc = "done", !.pairs = CommonMapper_pairs(cm.files)]
    /\ UNCHANGED <<fsVars, reply, rl, uc, thrVars>>

NextCommon == CommonPairs

SpecCommon == InitCommon /\ [][NextCommon]_vars

(***************************************************************************)
(* SpecStatic: a StaticList (src/generic.py:26-78) constructed from a list *)
(* of pairs, then _find_referent calls served by one thread.               *)
(***************************************************************************)

\* pairs handed to StaticList.__init__
MaxPairs == 2

\* components of the paths in the pairs
StaticDepth == 2

StaticPaths == AbsPaths(StaticDepth) \ {<<SEP>>}

\* the dict comprehension of StaticList.__init__ (generic.py:31): the first
\* element of a pair is bound to mounted, the second to real
RECURSIVE StaticList_entries(_)
StaticList_entries(pairs) ==
    IF pairs = <<>> THEN EmptyMap
    ELSE LET rest    == StaticList_entries(SubSeq(pairs, 1, Len(pairs) - 1))
             last    == pairs[Len(pairs)]
             mounted == RStrip(last[1])
             real    == RStrip(last[2])
         IN  [k \in DOMAIN rest \cup {mounted} |-> IF k = mounted THEN real ELSE rest[k]]

\* StaticList.synthesize_dirs (generic.py:40-50): the loop of
\* MapFuse._synthesize_dirs, statement for statement
StaticList_synthesize_dirs(es, order) == SynthesizeDirs(es, order)

\* StaticList._find_referent (generic.py:52-73): the statements of
\* MapFuse._find_referent without the lock
StaticList_find_referent(es, ds, path, isdir) == FindReferent(es, ds, path, isdir)

\* StaticList(pairs) has been constructed; files holds the pairs it was given
InitStatic ==
    /\ mapper = "none"
    /\ \E n \in 0..MaxPairs : files \in [1..n -> StaticPaths \X StaticPaths]
    /\ entries = StaticList_entries(files)
    /\ \E order \in Orders(DOMAIN entries) : dirs = StaticList_synthesize_dirs(entries, order)
    /\ now = 0
    /\ ctime = 0
    /\ reply = NoReply
    /\ rl = NoFrame
    /\ NoCalls
    /\ NoThreads

\* a call of StaticList._find_referent(path)
StaticResolve ==
    /\ reply = NoReply
    /\ \E path \in AbsPaths(StaticDepth), isdir \in BOOLEAN :
          reply' = [op |-> "_find_referent", path |-> path, isdir |-> isdir,
                    result |-> StaticList_find_referent(entries, dirs, path, isdir)]
    /\ UNCHANGED <<fsVars, rl, callVars, thrVars>>

\* the call returns
StaticReturn ==
    /\ reply # NoReply
    /\ reply' = NoReply
    /\ UNCHANGED <<fsVars, rl, callVars, thrVars>>

NextStatic == StaticResolve \/ StaticReturn

SpecStatic == InitStatic /\ [][NextStatic]_vars

(***************************************************************************)
(* Spec: the mounted filesystem.  The watcher thread rereads the input     *)
(* file whenever it changes (WatcherThread.run -> read_list) while FUSE    *)
(* threads serve getattr requests (__call__ -> _find_referent -> getattr). *)
(* Every access to self.entries, self.dirs and self.ctime is a step.       *)
(***************************************************************************)

\* FUSE threads
NumWorkers == 1

\* changes of the input file that the watcher sees
MaxReloads == 2

\* components of the paths in the input file
ThreadDepth == 2

ThreadNames == {"a"}

ThreadLines == AbsPathsOver(ThreadNames, ThreadDepth) \ {<<SEP>>}

\* the input file is empty or holds one line
ThreadInputs == {<<>>} \cup {<<l>> : l \in ThreadLines}

\* the paths of the requests: one component deeper than the input
ThreadPaths == AbsPathsOver(ThreadNames, ThreadDepth + 1)

Workers == 1..NumWorkers

\* a FUSE thread between two requests
IdleWorker ==
    [pc |-> "idle", path |-> EMPTY, left |-> EMPTY, base |-> EMPTY, right |-> EMPTY,
     isdir |-> FALSE, target |-> Raise("none"), seen |-> {}, result |-> Raise("none")]

\* a lock that excludes nobody
AcquirableAlways(lock) == TRUE

\* Lock.acquire returns only when the lock is not held
Acquirable(lock) == lock = Free

\* MapFuse.__init__ has run read_list on the input file and MapFuse.init has
\* started the watcher thread, which waits in get_events
Init ==
    /\ mapper = "copy"
    /\ files \in ThreadInputs
    /\ entries = BuildEntries(PairSource(mapper, files))
    /\ \E order \in Orders(DOMAIN entries) : dirs = SynthesizeDirs(entries, order)
    /\ now = 0
    /\ ctime = 0
    /\ reply = NoReply
    /\ rl = NoFrame
    /\ NoCalls
    /\ update_lock = Free
    /\ worker = [w \in Workers |-> IdleWorker]
    /\ gen = [calls |-> 0, entries |-> 0, dirs |-> 0, ctime |-> 0]

\* get_events returns: the input file has changed; read_list builds the new
\* entries and dirs (lines 74-76) from what the file holds now
WatcherBuild ==
    /\ rl.pc = "idle"
    /\ gen.calls < MaxReloads
    /\ \E fs \in ThreadInputs :
          /\ files' = fs
          /\ \E order \in Orders(DOMAIN BuildEntries(PairSource(mapper, fs))) :
                rl' = [pc |-> "built", entries |-> BuildEntries(PairSource(mapper, fs)),
                       order |-> <<>>, i |-> 0,
                       dirs |-> SynthesizeDirs(BuildEntries(PairSource(mapper, fs)), order)]
    /\ gen' = [gen EXCEPT !.calls = gen.calls + 1]
    /\ UNCHANGED <<mapper, entries, dirs, ctime, now, reply, callVars, update_lock, worker>>

\* read_list: with self.update_lock
WatcherAcquire ==
    /\ rl.pc = "built"
    /\ Acquirable(update_lock)
    /\ update_lock' = Watcher
    /\ rl' = [rl EXCEPT !.pc = "locked"]
    /\ UNCHANGED <<fsVars, reply, callVars, worker, gen>>

\* read_list: self.entries = entries
WatcherSetEntries ==
    /\ rl.pc = "locked"
    /\ entries' = rl.entries
    /\ gen' = [gen EXCEPT !.entries = gen.calls]
    /\ rl' = [rl EXCEPT !.pc = "entries_set"]
    /\ UNCHANGED <<mapper, files, dirs, ctime, now, reply, callVars, update_lock, worker>>

\* read_list: self.dirs = dirs
WatcherSetDirs ==
    /\ rl.pc = "entries_set"
    /\ dirs' = rl.dirs
    /\ gen' = [gen EXCEPT !.dirs = gen.calls]
    /\ rl' = [rl EXCEPT !.pc = "dirs_set"]
    /\ UNCHANGED <<mapper, files, entries, ctime, now, reply, callVars, update_lock, worker>>

\* read_list: the with block ends
WatcherRelease ==
    /\ rl.pc = "dirs_set"
    /\ update_lock' = Free
    /\ rl' = [rl EXCEPT !.pc = "released"]
    /\ UNCHANGED <<fsVars, reply, callVars, worker, gen>>

\* read_list: self.ctime = time.time(); the watcher waits for the next event
WatcherSetCtime ==
    /\ rl.pc = "released"
    /\ now' = now + 1
    /\ ctime' = now'
    /\ gen' = [gen EXCEPT !.ctime = gen.calls]
    /\ rl' = NoFrame
    /\ UNCHANGED <<mapper, files, entries, dirs, reply, callVars, update_lock, worker>>

\* the kernel hands getattr(path) to FUSE thread w: MapFuse.__call__
WorkerRequest(w) ==
    /\ worker[w].pc = "idle"
    /\ \E path \in ThreadPaths :
          worker' = [worker EXCEPT ![w] = [IdleWorker EXCEPT !.pc = "acquire", !.path = path]]
    /\ UNCHANGED <<fsVars, reply, rl, callVars, update_lock, gen>>

\* _find_referent: with self.update_lock
WorkerAcquire(w) ==
    /\ worker[w].pc = "acquire"
    /\ Acquirable(update_lock)
    /\ update_lock' = Thread(w)
    /\ worker' = [worker EXCEPT ![w].pc = "L99"]
    /\ UNCHANGED <<fsVars, reply, rl, callVars, gen>>

\* _find_referent line 99-101: if path in self.entries: return self.entries[path]
WorkerL99(w) ==
    /\ worker[w].pc = "L99"
    /\ worker' = [worker EXCEPT ![w] =
          IF worker[w].path \in DOMAIN entries
          THEN [@ EXCEPT !.seen = @ \cup {gen.entries}, !.pc = "release",
                         !.target = Real(entries[worker[w].path])]
          ELSE [@ EXCEPT !.seen = @ \cup {gen.entries}, !.pc = "L102"]]
    /\ UNCHANGED <<fsVars, reply, rl, callVars, update_lock, gen>>

\* _find_referent line 102-108: if path in self.dirs: return self.dirs[path];
\* otherwise the walk starts at os.path.split(path)
WorkerL102(w) ==
    /\ worker[w].pc = "L102"
    /\ worker' = [worker EXCEPT ![w] =
          IF worker[w].path \in DOMAIN dirs
          THEN [@ EXCEPT !.seen = @ \cup {gen.dirs}, !.pc = "release",
                         !.target = Directory(dirs[worker[w].path])]
          ELSE [@ EXCEPT !.seen = @ \cup {gen.dirs}, !.pc = "L109",
                         !.left = Split(worker[w].path)[1],
                         !.base = Split(worker[w].path)[2],
                         !.right = Split(worker[w].path)[2]]]
    /\ UNCHANGED <<fsVars, reply, rl, callVars, update_lock, gen>>

\* what one evaluation of the while condition of _find_referent reads:
\* nothing when base is empty, self.entries, and self.dirs when left is not
\* in self.entries
WalkReads(f) ==
    IF f.base = EMPTY THEN {}
    ELSE IF f.left \in DOMAIN entries THEN {gen.entries}
    ELSE {gen.entries, gen.dirs}

\* _find_referent line 109-111: one evaluation of the while condition and,
\* when it holds, one run of the loop body
WorkerL109(w) ==
    /\ worker[w].pc = "L109"
    /\ worker' = [worker EXCEPT ![w] =
          IF WalkContinue(entries, dirs, worker[w].left, worker[w].base)
          THEN [@ EXCEPT !.seen = @ \cup WalkReads(worker[w]),
                         !.left = Split(worker[w].left)[1],
                         !.base = Split(worker[w].left)[2],
                         !.right = Join(Split(worker[w].left)[2], worker[w].right)]
          ELSE [@ EXCEPT !.seen = @ \cup WalkReads(worker[w]), !.pc = "L112"]]
    /\ UNCHANGED <<fsVars, reply, rl, callVars, update_lock, gen>>

\* _find_referent line 112-117: the result of the walk; os.path.isdir, when
\* the code calls it, gets the answer of the real filesystem
WorkerL112(w) ==
    /\ worker[w].pc = "L112"
    /\ \E isdir \in BOOLEAN :
          worker' = [worker EXCEPT ![w] =
              IF worker[w].left = EMPTY
              THEN [@ EXCEPT !.pc = "release", !.target = Raise("ENOENT")]
              ELSE IF worker[w].left \in DOMAIN entries
                        /\ OsPathIsdir(entries[worker[w].left], isdir)
              THEN [@ EXCEPT !.seen = @ \cup {gen.entries}, !.pc = "release",
                             !.isdir = isdir,
                             !.target = Real(Join(entries[worker[w].left], worker[w].right))]
              ELSE [@ EXCEPT !.seen = @ \cup {gen.entries}, !.pc = "release",
                             !.isdir = worker[w].left \in DOMAIN entries /\ isdir,
                             !.target = Raise("ENOENT")]]
    /\ UNCHANGED <<fsVars, reply, rl, callVars, update_lock, gen>>

\* a lock released by hand before each return, but not before the raise
ExitWithReturnOnly(holder, target) == IF target.kind = "ENOENT" THEN holder ELSE Free

\* the lock when "with self.update_lock" is left with the result target:
\* __exit__ releases it on a return and on a raise alike
ExitWith(holder, target) == Free

\* _find_referent: the with block ends, by return or by raise
WorkerRelease(w) ==
    /\ worker[w].pc = "release"
    /\ update_lock' = ExitWith(update_lock, worker[w].target)
    /\ worker' = [worker EXCEPT ![w].pc = "dispatch"]
    /\ UNCHANGED <<fsVars, reply, rl, callVars, gen>>

\* __call__ line 120-122: an ENOENT of _find_referent ends the request;
\* otherwise getattr runs on the target and reads self.ctime, without the
\* lock (its three reads of self.ctime are taken as one)
WorkerDispatch(w) ==
    /\ worker[w].pc = "dispatch"
    /\ worker' = [worker EXCEPT ![w] =
          [@ EXCEPT !.pc = "return",
                    !.result = IF worker[w].target.kind = "ENOENT" THEN worker[w].target
                               ELSE Getattr(worker[w].target, ctime)]]
    /\ UNCHANGED <<fsVars, reply, rl, callVars, update_lock, gen>>

\* the reply goes back to the kernel
WorkerReturn(w) ==
    /\ worker[w].pc = "return"
    /\ worker' = [worker EXCEPT ![w] = IdleWorker]
    /\ UNCHANGED <<fsVars, reply, rl, callVars, update_lock, gen>>

WatcherStep ==
    \/ WatcherBuild
    \/ WatcherAcquire
    \/ WatcherSetEntries
    \/ WatcherSetDirs
    \/ WatcherRelease
    \/ WatcherSetCtime

WorkerStep(w) ==
    \/ WorkerRequest(w)
    \/ WorkerAcquire(w)
    \/ WorkerL99(w)
    \/ WorkerL102(w)
    \/ WorkerL109(w)
    \/ WorkerL112(w)
    \/ WorkerRelease(w)
    \/ WorkerDispatch(w)
    \/ WorkerReturn(w)

Next == WatcherStep \/ \E w \in Workers : WorkerStep(w)

Spec == Init /\ [][Next]_vars

\* Fair scheduling.  A thread that can take a step other than acquiring the
\* lock keeps being able to until it takes it, so it eventually runs (weak
\* fairness).  threading.Lock hands the lock to any waiter, so a waiter is
\* served eventually only if it is not passed over forever (strong
\* fairness).  The arrival of a request and a change of the input file are
\* up to the environment and carry no fairness.
WorkerRuns(w) ==
    \/ WorkerL99(w)
    \/ WorkerL102(w)
    \/ WorkerL109(w)
    \/ WorkerL112(w)
    \/ WorkerRelease(w)
    \/ WorkerDispatch(w)
    \/ WorkerReturn(w)

WatcherRuns ==
    \/ WatcherSetEntries
    \/ WatcherSetDirs
    \/ WatcherRelease
    \/ WatcherSetCtime

Fairness ==
    /\ WF_vars(WatcherRuns)
    /\ SF_vars(WatcherAcquire)
    /\ \A w \in Workers : WF_vars(WorkerRuns(w)) /\ SF_vars(WorkerAcquire(w))

\* Progress does not depend on which paths are looked up, only on the
\* branches taken, so the fair specification serves two request paths on
\* an input file that is empty or holds the line /a: a path found among
\* the directories or missing ("/"), and a path below an entry or missing
\* ("/a/a").
FairInputs == {<<>>, <<PathOf(<<"a">>)>>}

FairPaths == {<<SEP>>, PathOf(<<"a", "a">>)}

InitFair == Init /\ files \in FairInputs

FairBuild == WatcherBuild /\ files' \in FairInputs

FairRequest(w) == WorkerRequest(w) /\ worker'[w].path \in FairPaths

NextFair ==
    \/ FairBuild
    \/ WatcherAcquire
    \/ WatcherRuns
    \/ \E w \in Workers : FairRequest(w) \/ WorkerAcquire(w) \/ WorkerRuns(w)

SpecFair == InitFair /\ [][NextFair]_vars /\ Fairness

(***************************************************************************)
(* Claims about the index and the requests served from it (SpecSeq)        *)
(***************************************************************************)

\* path is p followed by a separator and one or more components
IsUnder(p, path) ==
    /\ Len(path) > Len(p) + 1
    /\ SubSeq(path, 1, Len(p)) = p
    /\ path[Len(p) + 1] = SEP
    /\ path[Len(path)] # SEP

\* no prefix of path longer than p, path included, is an entry or a
\* synthesized directory
NothingBetween(p, path) ==
    \A k \in (Len(p) + 1)..Len(path) :
        SubSeq(path, 1, k) \notin DOMAIN entries \cup DOMAIN dirs

\* C2: when an entry (p, r) names an existing real directory r and nothing
\* between p and p/s is an entry or a synthesized directory, Resolve(p/s)
\* returns r/s.
C2_FallbackUnderEntry ==
    (reply.op = "_find_referent" /\ reply.isdir) =>
        \A p \in DOMAIN entries :
            (entries[p] # EMPTY /\ IsUnder(p, reply.path) /\ NothingBetween(p, reply.path))
                => /\ reply.result.kind = "real"
                   /\ reply.result.val =
                        entries[p] \o SubSeq(reply.path, Len(p) + 1, Len(reply.path))

\* C2 for the entries whose mounted path is not empty (not the mount root)
C2_FallbackUnderNamedEntry ==
    (reply.op = "_find_referent" /\ reply.isdir) =>
        \A p \in DOMAIN entries \ {EMPTY} :
            (entries[p] # EMPTY /\ IsUnder(p, reply.path) /\ NothingBetween(p, reply.path))
                => /\ reply.result.kind = "real"
                   /\ reply.result.val =
                        entries[p] \o SubSeq(reply.path, Len(p) + 1, Len(reply.path))

\* C7: with the copy mapper, Resolve(f) returns f for every f of the input.
C7_CopyRoundTrip ==
    (mapper = "copy" /\ reply.op = "_find_referent" /\ reply.path \in Range(files))
        => (reply.result.kind = "real" /\ reply.result.val = reply.path)

\* C9: getattr of a synthesized directory d reports st_nlink = 2 + the number
\* of children of d that are synthesized directories.
C9_LinkCount ==
    (reply.op = "getattr" /\ reply.path \in DOMAIN dirs) =>
        /\ reply.result.kind = "attr"
        /\ reply.result.val.st_nlink =
              2 + Cardinality({c \in dirs[reply.path] : Join(reply.path, c) \in DOMAIN dirs})

\* the request names a synthesized directory or a new name directly under one
AgainstSynthesized(es, ds, path) ==
    \/ path \in DOMAIN ds
    \/ /\ path \notin DOMAIN es
       /\ Split(path)[1] \in DOMAIN ds
       /\ Split(path)[2] # EMPTY
       /\ Split(path)[2] \notin ds[Split(path)[1]]

\* C10: a structural mutation against a synthesized directory fails with
\* EACCES and leaves entries and dirs as they were.
C10_MutationDenied ==
    [][(reply'.op \in MutationOps /\ reply' # reply
            /\ AgainstSynthesized(entries, dirs, reply'.path))
        => (reply'.result.kind = "EACCES" /\ entries' = entries /\ dirs' = dirs)]_vars


\* the proper prefixes of path longer than p that end where a component ends
PrefixesBetween(p, path) ==
    {SubSeq(path, 1, k) : k \in {j \in (Len(p) + 1)..(Len(path) - 1) : path[j + 1] = SEP}}

\* C12: a synthesized directory met by the fallback walk does not end the
\* walk.  When the requested path is neither an entry nor a directory, a
\* synthesized directory lies between it and a shallower entry (p, r), no
\* entry lies between, and r is an existing real directory, Resolve returns
\* r followed by the stripped suffix, not NotFound.
C12_WalkPastDirectory ==
    (reply.op = "_find_referent" /\ reply.isdir
        /\ reply.path \notin DOMAIN entries \cup DOMAIN dirs) =>
        \A p \in DOMAIN entries \ {EMPTY} :
            (/\ entries[p] # EMPTY
             /\ IsUnder(p, reply.path)
             /\ PrefixesBetween(p, reply.path) \cap DOMAIN entries = {}
             /\ PrefixesBetween(p, reply.path) \cap DOMAIN dirs # {})
                => reply.result = Real(entries[p] \o SubSeq(reply.path, Len(p) + 1, Len(reply.path)))

\* C12, auxiliary: what the walk of _find_referent does instead.  When the
\* deepest proper prefix of the path that is an entry or a synthesized
\* directory is a synthesized directory, the result is ENOENT, whatever
\* entries lie above it.
C12_DirectoryEndsWalk ==
    (reply.op = "_find_referent"
        /\ reply.path \notin DOMAIN entries \cup DOMAIN dirs) =>
        \A q \in DOMAIN dirs :
            (/\ q \in PrefixesBetween(EMPTY, reply.path) \cup {<<SEP>>}
             /\ IsPrefix(q, reply.path)
             /\ PrefixesBetween(q, reply.path) \cap (DOMAIN entries \cup DOMAIN dirs) = {})
                => reply.result = Raise("ENOENT")

(***************************************************************************)
(* Claims about the synthesis of directories (SpecBuild)                   *)
(***************************************************************************)

\* the proper ancestor directories of a path: what precedes each of its
\* separators, the root for the first separator of an absolute path
Ancestors(p) ==
    {IF k = 1 THEN <<SEP>> ELSE SubSeq(p, 1, k - 1) : k \in {j \in 1..Len(p) : p[j] = SEP}} \ {p}

\* C3: whatever the order of processing, every proper ancestor of every path
\* given to the synthesizer is a key of the dirs it returns, unless the
\* ancestor is itself one of the paths.
C3_SynthesisComplete ==
    (rl.pc = "synth" /\ rl.i > Len(rl.order)) =>
        \A v \in DOMAIN rl.entries : \A a \in Ancestors(v) :
            a \in DOMAIN rl.dirs \/ a \in DOMAIN rl.entries

\* the synthesizer has finished on two paths that share an ancestor below
\* the root
C3_Witness ==
    /\ rl.pc = "synth" /\ rl.i > Len(rl.order)
    /\ \E v \in DOMAIN rl.entries, w \in DOMAIN rl.entries :
          /\ v # w
          /\ (Ancestors(v) \cap Ancestors(w)) \ {<<SEP>>} # {}
          /\ (Ancestors(v) \cap Ancestors(w)) \subseteq DOMAIN rl.dirs

\* C4: no path is both a key of entries and a key of dirs, in the index
\* being built and in the index being served, whatever was resolved.
C4_EntryXorDirectory ==
    /\ DOMAIN entries \cap DOMAIN dirs = {}
    /\ DOMAIN rl.entries \cap DOMAIN rl.dirs = {}

\* an entry lies above another entry, directories were synthesized below
\* it, and a request has been resolved against that index
C4_Witness ==
    /\ \E p \in DOMAIN entries, q \in DOMAIN entries :
          p # EMPTY /\ IsUnder(p, q) /\ \E d \in DOMAIN dirs : IsUnder(p, d)
    /\ reply.op = "_find_referent"


(***************************************************************************)
(* Claims about the collision resolver (SpecUncollide)                     *)
(***************************************************************************)

UncollideDone == uc.i > Len(uc.files)

\* files[i] repeats an earlier name of the input
IsRepeat(fs, i) == \E j \in 1..(i - 1) : fs[j] = fs[i]

\* C5: the resolver outputs as many names as it was given, pairwise distinct.
C5_OutputDistinct ==
    UncollideDone =>
        /\ Len(uc.out) = Len(uc.files)
        /\ \A i \in 1..Len(uc.out), j \in 1..Len(uc.out) : i # j => uc.out[i] # uc.out[j]

\* the resolver has finished on an input in which a name occurs three times
C5_Witness ==
    /\ UncollideDone
    /\ \E i \in 1..Len(uc.files) : IsRepeat(uc.files, i) /\ \E j \in 1..(i - 1) : IsRepeat(uc.files, j)

\* C6: the first occurrence of each name is emitted unchanged at its own
\* position, and the name emitted for a repeat is no name of the input.
C6_FirstKeptRepeatFresh ==
    UncollideDone =>
        \A i \in 1..Len(uc.files) :
            IF IsRepeat(uc.files, i)
            THEN i <= Len(uc.out) /\ uc.out[i] \notin Range(uc.files)
            ELSE i <= Len(uc.out) /\ uc.out[i] = uc.files[i]

\* the resolver has finished on an input where the first candidate for a
\* repeat is a name that occurs later in the input
C6_Witness ==
    /\ UncollideDone
    /\ \E i \in 1..Len(uc.files), k \in 1..Len(uc.files) :
          /\ IsRepeat(uc.files, i)
          /\ i < k
          /\ ~IsRepeat(uc.files, k)
          /\ uc.files[k] = Fmt(SplitExt(uc.files[i])[1], 1, SplitExt(uc.files[i])[2])

(***************************************************************************)
(* Claims about the common-prefix mapper (SpecCommon)                      *)
(***************************************************************************)

\* q can be removed from every file leaving a path that starts with "/"
IsDirPrefixOfAll(q, fs) ==
    \A i \in 1..Len(fs) : IsPrefix(q, fs[i]) /\ Len(fs[i]) > Len(q) /\ fs[i][Len(q) + 1] = SEP

\* C8: CommonMapper.pairs removes one prefix from every path; each virtual
\* path starts with "/" and real = prefix + virtual; no longer prefix of
\* that kind is shared by all the inputs.
C8_TrimAtSeparator ==
    cm.pc = "done" =>
        /\ Len(cm.pairs) = Len(cm.files)
        /\ \E n \in 0..Len(cm.files[1]) :
              LET prefix == SubSeq(cm.files[1], 1, n)
              IN  /\ \A i \in 1..Len(cm.pairs) :
                        /\ cm.pairs[i][1] = cm.files[i]
                        /\ cm.pairs[i][1] = prefix \o cm.pairs[i][2]
                        /\ cm.pairs[i][2] # EMPTY
                        /\ cm.pairs[i][2][1] = SEP
                  /\ \A m \in (n + 1)..Len(cm.files[1]) :
                        ~IsDirPrefixOfAll(SubSeq(cm.files[1], 1, m), cm.files)

\* the call has returned for two paths whose common string prefix ends
\* inside a name, below a common directory
C8_Witness ==
    /\ cm.pc = "done"
    /\ Len(cm.files) = 2
    /\ LET cp == CommonPrefix(cm.files)
       IN  /\ cp[Len(cp)] # SEP
           /\ cp # cm.files[1] /\ cp # cm.files[2]
           /\ RFind(cp, SEP) > 1


(***************************************************************************)
(* Claims about the threads (Spec)                                         *)
(***************************************************************************)

\* C1: whatever the interleaving of _find_referent calls with read_list
\* calls, every value a _find_referent call reads from self.entries and
\* self.dirs belongs to one and the same read_list call, and its result is
\* the result of _find_referent on the index that call stored.
C1_OneSnapshot ==
    \A w \in Workers :
        /\ Cardinality(worker[w].seen) <= 1
        /\ worker[w].pc = "release" =>
              /\ gen.entries = gen.dirs
              /\ worker[w].seen \subseteq {gen.entries}
              /\ worker[w].target =
                    FindReferent(entries, dirs, worker[w].path, worker[w].isdir)

\* read_list has stored a new index and not yet its ctime; a _find_referent
\* call has since read self.entries and self.dirs and is about to return a
\* directory
C1_Witness ==
    \E w \in Workers :
        /\ worker[w].pc = "release"
        /\ worker[w].seen = {gen.calls}
        /\ gen.calls > 0
        /\ worker[w].target.kind = "Directory"
        /\ rl.pc = "released"


(***************************************************************************)
(* Claims about StaticList (SpecStatic)                                    *)
(***************************************************************************)

\* the mounted paths (second elements) of the pairs are pairwise distinct
DistinctMounted(pairs) ==
    \A i, j \in DOMAIN pairs : pairs[i][2] = pairs[j][2] => i = j

\* C11: a StaticList constructed from (realpath, mountedpath) pairs, the
\* order its docstring states, resolves every mountedpath to its realpath.
C11_DocstringOrder ==
    (reply.op = "_find_referent" /\ DistinctMounted(files)) =>
        \A i \in DOMAIN files :
            reply.path = files[i][2] => reply.result = Real(files[i][1])

\* C11, auxiliary: with the pairs read as (mountedpath, realpath), the order
\* of the tuple unpacking, every mountedpath resolves to the realpath of the
\* last pair that names it.
C11_UnpackingOrder ==
    reply.op = "_find_referent" =>
        \A i \in DOMAIN files :
            (reply.path = files[i][1] /\ \A j \in DOMAIN files : files[j][1] = files[i][1] => j <= i)
                => reply.result = Real(files[i][2])


(***************************************************************************)
(* Claims about the creation timestamp (Spec)                              *)
(***************************************************************************)

\* the time read_list call k stores in self.ctime: the clock advances by one
\* per call and call 0 is the one of MapFuse.__init__
CreationTime(k) == k

\* the index a request can resolve against is never newer than self.ctime
IndexNotNewerThanCtime ==
    update_lock # Watcher => (gen.entries = gen.ctime /\ gen.dirs = gen.ctime)

\* the times getattr reports for a synthesized directory are the creation
\* time of the read_list call whose index the directory was resolved from
DirectoryTimesOfSnapshot ==
    \A w \in Workers :
        (worker[w].pc = "return" /\ worker[w].result.kind = "attr") =>
            \E k \in worker[w].seen : worker[w].result.val.st_ctime = CreationTime(k)

\* C13: read_list stores the index and the creation timestamp in one
\* critical section.  Whenever a request can observe the index, self.ctime
\* belongs to the same read_list call as self.entries and self.dirs, and
\* the times reported for a synthesized directory are the creation time of
\* the index the directory belongs to.
C13_TimestampWithIndex == IndexNotNewerThanCtime /\ DirectoryTimesOfSnapshot

\* C13, auxiliary: self.ctime always holds the creation time of the
\* read_list call that stored it last, and that call is never newer than
\* the one that stored self.entries.
C13_CtimeLagsIndex ==
    /\ ctime = CreationTime(gen.ctime)
    /\ gen.ctime <= gen.entries
    /\ gen.entries <= gen.ctime + 1


(***************************************************************************)
(* Claims about progress (SpecFair)                                        *)
(***************************************************************************)

\* the positions of a FUSE thread outside "with self.update_lock"
OutsideWith == {"idle", "acquire", "dispatch", "return"}

====
